---- MODULE Spec2Model ----
(***************************************************************************)
(* A model of sphinx_click/ext.py: the help-text formatters, the command   *)
(* renderer, the subcommand filter, the module resolver, and the two       *)
(* directives (click, click-options) with the temp_data overlay they       *)
(* share.  Text is modelled with strings, processed character by           *)
(* character where the code does (strip, split, indent).                   *)
(***************************************************************************)
EXTENDS Integers, Sequences, FiniteSets, TLC

VARIABLES
    temp_data,  \* self.env.temp_data: a plain dict, or a ChainMap of mappings
    stack,      \* the directive invocations in progress, innermost first
    raised,     \* an exception of the Tree Walker is propagating
    last,       \* the outcome of the most recent directive invocation
    counts,     \* directive invocations, pushes and pops so far
    cli,        \* the object the documented module exports as attribute "cli"
    inp,        \* input of the pure function under check
    out         \* its result

vars == <<temp_data, stack, raised, last, counts, cli, inp, out>>

None == [t |-> "none"]

----------------------------------------------------------------------------
(* Text helpers: the str methods the code uses.                            *)

Ch(s, i) == SubSeq(s, i, i)

\* str.strip() with no argument strips these
Whitespace == {" ", "\t", "\n", "\r", "\f"}

RECURSIVE LStrip(_)
LStrip(s) ==
    IF Len(s) > 0 /\ Ch(s, 1) \in Whitespace THEN LStrip(Tail(s)) ELSE s

RECURSIVE RStrip(_)
RStrip(s) ==
    IF Len(s) > 0 /\ Ch(s, Len(s)) \in Whitespace
    THEN RStrip(SubSeq(s, 1, Len(s) - 1))
    ELSE s

Strip(s) == LStrip(RStrip(s))

\* position of the first sep in s, 0 when there is none
RECURSIVE Find(_, _, _)
Find(s, sep, i) ==
    IF i > Len(s) THEN 0
    ELSE IF Ch(s, i) = sep THEN i
    ELSE Find(s, sep, i + 1)

\* str.split(sep): every piece, empty ones included
RECURSIVE Split(_, _)
Split(s, sep) ==
    LET i == Find(s, sep, 1) IN
    IF i = 0 THEN <<s>>
    ELSE <<SubSeq(s, 1, i - 1)>> \o Split(SubSeq(s, i + 1, Len(s)), sep)

\* str.split(sep, 1): at most one split, at the first sep
SplitOnce(s, sep) ==
    LET i == Find(s, sep, 1) IN
    IF i = 0 THEN <<s>>
    ELSE <<SubSeq(s, 1, i - 1), SubSeq(s, i + 1, Len(s))>>

\* sep.join(parts)
RECURSIVE Join(_, _)
Join(sep, parts) ==
    IF parts = <<>> THEN ""
    ELSE IF Len(parts) = 1 THEN parts[1]
    ELSE parts[1] \o sep \o Join(sep, Tail(parts))

\* the characters of the model's texts, in code point order
CodePoints == "\t\n\f\r !(),-./0123456789:;<>ABCDEFGHIJKLMNOPQRSTUVWXYZ[]_abcdefghijklmnopqrstuvwxyz"

Ord(c) == Find(CodePoints, c, 1)

\* a < b for str: lexicographic by code point
RECURSIVE StrLess(_, _)
StrLess(a, b) ==
    IF Len(b) = 0 THEN FALSE
    ELSE IF Len(a) = 0 THEN TRUE
    ELSE IF Ch(a, 1) = Ch(b, 1) THEN StrLess(Tail(a), Tail(b))
    ELSE Ord(Ch(a, 1)) < Ord(Ch(b, 1))

\* '%s' % v
Format(v) ==
    CASE v.t = "int" -> ToString(v.v)
      [] v.t = "str" -> v.v
      [] v.t = "bool" -> IF v.v THEN "True" ELSE "False"
      [] v.t = "none" -> "None"

\* a str where the code may also hold None
Str(s) == [t |-> "str", v |-> s]

\* the truth value of a str or None
Truthy(v) == v.t = "str" /\ v.v # ""

RECURSIVE Spaces(_)
Spaces(n) == IF n = 0 THEN "" ELSE " " \o Spaces(n - 1)

\* _indent(text, level) on a text of one line
Indent(text, level) ==
    IF text = "" THEN ""
    ELSE IF Strip(text) # "" THEN Spaces(4 * level) \o text
    ELSE text

\* str.expandtabs(4) on one line
RECURSIVE ExpandTabs(_, _)
ExpandTabs(s, col) ==
    IF Len(s) = 0 THEN ""
    ELSE IF Ch(s, 1) = "\t"
         THEN Spaces(4 - (col % 4)) \o ExpandTabs(Tail(s), col + 4 - (col % 4))
         ELSE Ch(s, 1) \o ExpandTabs(Tail(s), col + 1)

\* str.splitlines(): the pieces between line ends, without a last empty one
SplitLines(s) ==
    LET ps == Split(s, "\n") IN
    IF ps[Len(ps)] = "" THEN SubSeq(ps, 1, Len(ps) - 1) ELSE ps

RECURSIVE MapLines(_)
MapLines(ls) ==
    IF ls = <<>> THEN <<>>
    ELSE <<RStrip(ExpandTabs(ls[1], 0))>> \o MapLines(Tail(ls))

\* statemachine.string2lines(s, tab_width=4, convert_whitespace=True): the
\* lines of s, tabs expanded and trailing whitespace removed
String2Lines(s) == MapLines(SplitLines(s))

RECURSIVE IndentAll(_)
IndentAll(ls) ==
    IF ls = <<>> THEN <<>> ELSE <<Indent(ls[1], 1)>> \o IndentAll(Tail(ls))

\* stands for the backspace character '\b', which a string here cannot hold
Backspace == "\\"

\* stands for the backquote of a reST role, which a string here cannot hold
Backquote == "'"

----------------------------------------------------------------------------
(* The click objects, as far as the code reads them.                       *)
(*   Option:   [kind, opts, secondary_opts, is_flag, count, metavar, help, *)
(*              rich_help, default, show_default, required, hidden,        *)
(*              envvar]                                                    *)
(*   Argument: [kind, name, required, nargs, envvar]                       *)
(*   Command:  [name, help, short_help, pieces, params, commands]          *)
(* commands is the subcommand dict in insertion order, a sequence of       *)
(* [key, cmd]; a plain command has none.                                   *)

IsAlnum(c) == Ord(c) >= Ord("0") /\ c \notin {":", ";", "<", ">", "[", "]", "_"}

\* click.parser.split_opt(opt)[0], the prefix of an option spelling
PrefixLen(opt) ==
    IF opt = "" \/ IsAlnum(Ch(opt, 1)) THEN 0
    ELSE IF Len(opt) >= 2 /\ Ch(opt, 2) = Ch(opt, 1) THEN 2
    ELSE 1

\* list.sort(key=prefix length): stable insertion of x into the sorted s
RECURSIVE InsertByPrefix(_, _)
InsertByPrefix(x, s) ==
    IF s = <<>> THEN <<x>>
    ELSE IF PrefixLen(x) < PrefixLen(s[1]) THEN <<x>> \o s
    ELSE <<s[1]>> \o InsertByPrefix(x, Tail(s))

RECURSIVE SortByPrefix(_)
SortByPrefix(s) ==
    IF s = <<>> THEN <<>>
    ELSE InsertByPrefix(s[Len(s)], SortByPrefix(SubSeq(s, 1, Len(s) - 1)))

\* click.formatting.join_options(opts)[0]: by prefix length, ', ' joined
JoinOptions(opts) == Join(", ", SortByPrefix(opts))

\* _write_opts of _get_help_record
WriteOpts(opt, opts) ==
    IF ~opt.is_flag /\ ~opt.count
    THEN JoinOptions(opts) \o " " \o opt.metavar
    ELSE JoinOptions(opts)

RECURSIVE FormatEach(_)
FormatEach(vs) ==
    IF vs = <<>> THEN <<>> ELSE <<Format(vs[1])>> \o FormatEach(Tail(vs))

\* the text after 'default: ' in _get_help_record
DefaultText(default) ==
    IF default.t \in {"list", "tuple"}
    THEN Join(", ", FormatEach(default.v))
    ELSE Format(default)

HelpExtraUnasked(opt) ==
    (IF opt.default # None
     THEN <<"default: " \o DefaultText(opt.default)>> ELSE <<>>)
    \o (IF opt.required THEN <<"required">> ELSE <<>>)

\* the list 'extra' of _get_help_record
HelpExtra(opt) ==
    (IF opt.default # None /\ opt.show_default
     THEN <<"default: " \o DefaultText(opt.default)>> ELSE <<>>)
    \o (IF opt.required THEN <<"required">> ELSE <<>>)

\* _get_help_record(opt): <<label, help>>
GetHelpRecord(opt) ==
    LET rv == <<WriteOpts(opt, opt.opts)>>
              \o (IF opt.secondary_opts # <<>>
                  THEN <<WriteOpts(opt, opt.secondary_opts)>> ELSE <<>>)
        help0 == IF opt.rich_help # None THEN opt.rich_help.v
                 ELSE IF Truthy(opt.help) THEN opt.help.v ELSE ""
        extra == HelpExtra(opt)
        help == IF extra # <<>>
                THEN (IF help0 # "" THEN help0 \o "  " ELSE "")
                     \o "[" \o Join("; ", extra) \o "]"
                ELSE help0
    IN <<Join(", ", rv), help>>

----------------------------------------------------------------------------
(* click.Context: [command, info_name, parent], parent a Context or None.  *)

\* self._get_context(name, command, parent)
GetContext(name, command, parent) ==
    [command |-> command, info_name |-> name, parent |-> parent]

\* click.Context.command_path
RECURSIVE CommandPath(_)
CommandPath(ctx) ==
    LStrip(IF ctx.parent # None
           THEN CommandPath(ctx.parent) \o " " \o ctx.info_name
           ELSE ctx.info_name)

\* _get_usage(ctx)
GetUsage(ctx) ==
    "**" \o CommandPath(ctx) \o "** " \o Join(" ", ctx.command.pieces)

RECURSIVE DropBackspace(_)
DropBackspace(ls) ==
    IF ls = <<>> THEN <<>>
    ELSE (IF Strip(ls[1]) = Backspace THEN <<>> ELSE <<ls[1]>>)
         \o DropBackspace(Tail(ls))

\* _format_description(ctx)
FormatDescription(ctx) ==
    LET help_string == IF Truthy(ctx.command.help) THEN ctx.command.help
                       ELSE ctx.command.short_help
    IN IF ~Truthy(help_string) THEN <<>>
       ELSE DropBackspace(String2Lines(help_string.v)) \o <<"">>

\* _format_usage(ctx)
FormatUsage(ctx) == <<"">> \o SplitLines(GetUsage(ctx)) \o <<"">>

\* _format_option(opt)
FormatOption(opt) ==
    LET rec == GetHelpRecord(opt) IN
    <<".. option:: " \o rec[1]>>
    \o (IF rec[2] # "" THEN <<"">> \o IndentAll(String2Lines(rec[2])) ELSE <<>>)

\* the lines of every block, a blank line after each block
RECURSIVE EachThenBlank(_)
EachThenBlank(blocks) ==
    IF blocks = <<>> THEN <<>>
    ELSE blocks[1] \o <<"">> \o EachThenBlank(Tail(blocks))

AnyOption(x) == x.kind = "option"

\* the params _format_options keeps: the options that are not hidden
ShownOption(x) == x.kind = "option" /\ ~x.hidden

\* _format_options(ctx)
FormatOptions(ctx) ==
    LET params == SelectSeq(ctx.command.params, ShownOption)
    IN EachThenBlank([i \in 1..Len(params) |-> FormatOption(params[i])])

\* _format_argument(arg)
FormatArgument(arg) ==
    <<".. option:: " \o arg.name,
      "",
      Indent((IF arg.required THEN "Required" ELSE "Optional") \o " argument"
             \o (IF arg.nargs # 1 THEN "(s)" ELSE ""), 1)>>

IsArgument(x) == x.kind = "argument"

\* _format_arguments(ctx)
FormatArguments(ctx) ==
    LET params == SelectSeq(ctx.command.params, IsArgument)
    IN EachThenBlank([i \in 1..Len(params) |-> FormatArgument(params[i])])

\* _format_envvar(param)
FormatEnvvar(param) ==
    LET param_ref == IF param.kind = "argument" THEN param.name
                     ELSE param.opts[1]
    IN <<".. envvar:: " \o param.envvar.v,
         "",
         Indent("Provide a default for :option:" \o Backquote \o param_ref
                \o Backquote, 1)>>

HasEnvvar(x) == Truthy(x.envvar)

\* _format_envvars(ctx)
FormatEnvvars(ctx) ==
    LET params == SelectSeq(ctx.command.params, HasEnvvar)
    IN EachThenBlank([i \in 1..Len(params) |-> FormatEnvvar(params[i])])

\* _format_subcommand(command)
FormatSubcommand(command) ==
    <<".. object:: " \o command.name>>
    \o (IF Truthy(command.short_help)
        THEN <<"">> \o IndentAll(String2Lines(command.short_help.v))
        ELSE <<>>)

\* sorted(..., key=lambda item: item.name): stable insertion of x into the
\* sorted sequence s
RECURSIVE InsertByName(_, _)
InsertByName(x, s) ==
    IF s = <<>> THEN <<x>>
    ELSE IF StrLess(x.name, s[1].name) THEN <<x>> \o s
    ELSE <<s[1]>> \o InsertByName(x, Tail(s))

RECURSIVE SortByName(_)
SortByName(s) ==
    IF s = <<>> THEN <<>>
    ELSE InsertByName(s[Len(s)], SortByName(SubSeq(s, 1, Len(s) - 1)))

RECURSIVE Values(_)
Values(d) == IF d = <<>> THEN <<>> ELSE <<d[1].cmd>> \o Values(Tail(d))

\* lookup[name] for name in lookup, else <<>>
Lookup(d, name) ==
    LET hit(e) == e.key = name IN Values(SelectSeq(d, hit))

RECURSIVE StripEach(_)
StripEach(ns) ==
    IF ns = <<>> THEN <<>> ELSE <<Strip(ns[1])>> \o StripEach(Tail(ns))

RECURSIVE LookupEach(_, _)
LookupEach(d, ns) ==
    IF ns = <<>> THEN <<>> ELSE Lookup(d, ns[1]) \o LookupEach(d, Tail(ns))

FilterCommandsUnstripped(ctx, commands) ==
    IF commands = None
    THEN SortByName(Values(ctx.command.commands))
    ELSE LookupEach(ctx.command.commands, Split(commands.v, ","))

\* _filter_commands(ctx, commands)
FilterCommands(ctx, commands) ==
    IF commands = None
    THEN SortByName(Values(ctx.command.commands))
    ELSE LookupEach(ctx.command.commands, StripEach(Split(commands.v, ",")))

FormatCommandListAlways(ctx, show_nested, commands) ==
    LET cs == FilterCommands(ctx, commands) IN
    (IF cs # <<>> THEN <<"Commands", "--------", "">> ELSE <<>>)
    \o EachThenBlank([i \in 1..Len(cs) |-> FormatSubcommand(cs[i])])

\* the part of _format_command that follows the environment variables
FormatCommandList(ctx, show_nested, commands) ==
    IF show_nested THEN <<>>
    ELSE LET cs == FilterCommands(ctx, commands) IN
         (IF cs # <<>> THEN <<"Commands", "--------", "">> ELSE <<>>)
         \o EachThenBlank([i \in 1..Len(cs) |-> FormatSubcommand(cs[i])])

\* a section of _format_command: its heading when it has lines, then the lines
Section(title, underline, lines) ==
    (IF lines # <<>> THEN <<title, underline, "">> ELSE <<>>) \o lines

\* _format_command(ctx, show_nested, commands)
FormatCommand(ctx, show_nested, commands) ==
    <<".. program:: " \o CommandPath(ctx), "">>
    \o <<"Synopsis", "--------", "">>
    \o FormatUsage(ctx)
    \o <<"Description", "-----------", "">>
    \o FormatDescription(ctx)
    \o Section("Options", "-------", FormatOptions(ctx))
    \o Section("Arguments", "---------", FormatArguments(ctx))
    \o Section("Environment variables", "---------------------",
               FormatEnvvars(ctx))
    \o FormatCommandList(ctx, show_nested, commands)

----------------------------------------------------------------------------
(* env.temp_data: a dict [kind |-> "dict", d |-> function], or a           *)
(* collections.ChainMap [kind |-> "chain", maps |-> sequence of mappings]. *)

Dict(d) == [kind |-> "dict", d |-> d]

\* collections.ChainMap(first, rest)
ChainMap(first, rest) == [kind |-> "chain", maps |-> <<first, rest>>]

\* key in mapping
RECURSIVE Contains(_, _)
Contains(m, key) ==
    IF m.kind = "dict" THEN key \in DOMAIN m.d
    ELSE \E i \in 1..Len(m.maps) : Contains(m.maps[i], key)

\* mapping[key], for a key it contains: the first of the maps that has it
RECURSIVE GetItem(_, _)
GetItem(m, key) ==
    IF m.kind = "dict" THEN m.d[key]
    ELSE LET has(x) == Contains(x, key)
         IN GetItem(SelectSeq(m.maps, has)[1], key)

\* mapping.get(key, default)
Get(m, key, default) == IF Contains(m, key) THEN GetItem(m, key) ELSE default

\* ChainMap.parents: a new ChainMap of all the maps but the first
Parents(m) ==
    [kind |-> "chain",
     maps |-> IF Len(m.maps) > 1 THEN Tail(m.maps) ELSE <<Dict(<<>>)>>]

\* the push of ClickDirective.run
PushContext(td, command, prog_name) ==
    ChainMap(Dict("click:command" :> command @@ "click:prog" :> prog_name), td)

PopNever(td, by_exception) == td

\* the finally clause of ClickDirective.run: on return and on exception alike
PopContext(td, by_exception) == Parents(td)

----------------------------------------------------------------------------
(* The modules __import__ can find: "m" exports the command cli and the    *)
(* plain command solo; importing "boom" raises, importing "quit" calls     *)
(* sys.exit(); no other module exists (the empty name is a ValueError).    *)

Solo ==
    [name |-> "solo", help |-> Str("Run alone."), short_help |-> None,
     pieces |-> <<"[OPTIONS]">>, params |-> <<>>, commands |-> <<>>]

\* __import__(module_name, globals(), locals(), [attr_name])
Import(module_name) ==
    CASE module_name = "m" -> "ok"
      [] module_name = "quit" -> "SystemExit"
      [] OTHER -> "Exception"

\* hasattr(mod, attr_name) for the module "m"
HasAttr(attr_name) == attr_name \in {"cli", "solo"}

\* getattr(mod, attr_name)
GetAttr(exported, attr_name) == IF attr_name = "cli" THEN exported ELSE Solo

NoError == [kind |-> "", msg |-> ""]

Error(kind, msg) == [kind |-> kind, msg |-> msg]

Loaded(error, imported, value) ==
    [error |-> error, imported |-> imported, value |-> value]

LoadModuleStrict(exported, module_path) ==
    LET parts == Split(module_path, ":") IN
    IF Len(parts) # 2 \/ parts[1] = "" \/ parts[2] = ""
    THEN Loaded(Error("MalformedReference", ""), FALSE, None)
    ELSE IF Import(parts[1]) # "ok"
    THEN Loaded(Error("ImportFailure", ""), TRUE, None)
    ELSE IF ~HasAttr(parts[2])
    THEN Loaded(Error("AttributeMissing", ""), TRUE, None)
    ELSE Loaded(NoError, TRUE, GetAttr(exported, parts[2]))

\* AbstractClickDirective._load_module(module_path)
LoadModule(exported, module_path) ==
    LET parts == SplitOnce(module_path, ":") IN
    IF Len(parts) < 2
    THEN Loaded(Error("MalformedReference",
                      "\"" \o module_path \o "\" is not of format \"module:parser\""),
                FALSE, None)
    ELSE LET module_name == parts[1]
             attr_name == parts[2]
             mod == Import(module_name)
         IN IF mod # "ok"
            THEN Loaded(Error("ImportFailure",
                              "Failed to import \"" \o attr_name \o "\" from \""
                              \o module_name \o "\". "
                              \o (IF mod = "SystemExit"
                                  THEN "The module appeared to call sys.exit()"
                                  ELSE "The following exception was raised:")),
                        TRUE, None)
            ELSE IF ~HasAttr(attr_name)
            THEN Loaded(Error("AttributeMissing",
                              "Module \"" \o module_name \o "\" has no attribute \""
                              \o attr_name \o "\""),
                        TRUE, None)
            ELSE Loaded(NoError, TRUE, GetAttr(exported, attr_name))

----------------------------------------------------------------------------
(* The directives.  A frame of stack is one run() in progress:             *)
(*   [kind, arguments, options, command, prog_name, todo, nodes, saved]    *)
(* arguments is the module reference or None, options the directive's      *)
(* options [prog, show_nested, commands]; todo holds the pending           *)
(* _generate_nodes calls, the next one first; nodes the blocks parsed so   *)
(* far, each [ctx, lines]; saved is temp_data as run() found it.  While    *)
(* the newest block is being parsed (nested_parse_with_titles) the         *)
(* directives it contains run.                                             *)

MaxDirectives == 4

MaxDepth == 3

Frame(kind, arguments, options, command, prog_name, todo, saved) ==
    [kind |-> kind, arguments |-> arguments, options |-> options,
     command |-> command, prog_name |-> prog_name, todo |-> todo,
     nodes |-> <<>>, saved |-> saved]

Call(name, command, parent, commands) ==
    [name |-> name, command |-> command, parent |-> parent,
     commands |-> commands]

\* the run() frames of click directives among fs
ClickFrames(fs) == LET isClick(f) == f.kind = "click" IN SelectSeq(fs, isClick)

\* a directive can run now: at the top of the document, or inside the block
\* the innermost run() is parsing
CanInvoke(maxDepth) ==
    /\ ~raised
    /\ counts.dirs < MaxDirectives
    /\ Len(stack) < maxDepth
    /\ stack # <<>> => stack[1].nodes # <<>>

\* what the caller of run() sees: phase is "error" (self.error raised),
\* "begin" (rendering started), "done" (nodes returned) or "raised" (another
\* exception came out); active counts the click directives then rendering
Outcome(dir, phase, arguments, options, error, imported, nodes, command, prog_name, enclosing) ==
    [dir |-> dir, phase |-> phase, arguments |-> arguments,
     options |-> options, error |-> error, imported |-> imported,
     nodes |-> nodes, command |-> command, prog_name |-> prog_name,
     active |-> Len(ClickFrames(enclosing))]

RunChecksProgFirst(exported, ref, options) ==
    IF options.prog = None
    THEN Loaded(Error("MissingProgOption", ":prog: must be specified"),
                FALSE, None)
    ELSE LoadModule(exported, ref)

\* the checks of ClickDirective.run before its push
RunChecks(exported, ref, options) ==
    LET r == LoadModule(exported, ref) IN
    IF r.error # NoError THEN r
    ELSE IF options.prog = None
    THEN Loaded(Error("MissingProgOption", ":prog: must be specified"),
                TRUE, None)
    ELSE r

\* ClickDirective.run, up to the call of _generate_nodes
ClickRun(ref, options, maxDepth) ==
    /\ CanInvoke(maxDepth)
    /\ LET r == RunChecks(cli, ref, options) IN
       IF r.error # NoError
       THEN /\ last' = Outcome("click", "error", Str(ref), options, r.error,
                               r.imported, <<>>, None, "", stack)
            /\ counts' = [counts EXCEPT !.dirs = @ + 1]
            /\ UNCHANGED <<temp_data, stack>>
       ELSE /\ temp_data' = PushContext(temp_data, r.value, options.prog.v)
            /\ stack' = <<Frame("click", Str(ref), options, r.value,
                                options.prog.v,
                                <<Call(options.prog.v, r.value, None,
                                       options.commands)>>,
                                temp_data)>> \o stack
            /\ last' = Outcome("click", "begin", Str(ref), options, NoError,
                               r.imported, <<>>, r.value, options.prog.v,
                               stack)
            /\ counts' = [counts EXCEPT !.dirs = @ + 1, !.pushes = @ + 1]
    /\ UNCHANGED <<raised, cli, inp, out>>

RECURSIVE CallEach(_, _, _)
CallEach(cs, ctx, commands) ==
    IF cs = <<>> THEN <<>>
    ELSE <<Call(cs[1].name, cs[1], ctx, commands)>>
         \o CallEach(Tail(cs), ctx, commands)

SubcallsWithFilter(ctx, show_nested, commands) ==
    IF show_nested
    THEN CallEach(FilterCommands(ctx, commands), ctx, commands)
    ELSE <<>>

\* the recursive calls of _generate_nodes: commands is not handed down
Subcalls(ctx, show_nested, commands) ==
    IF show_nested
    THEN CallEach(FilterCommands(ctx, commands), ctx, None)
    ELSE <<>>

\* one call of ClickDirective._generate_nodes, up to its recursive calls
WalkStep ==
    /\ ~raised
    /\ stack # <<>>
    /\ stack[1].kind = "click"
    /\ stack[1].todo # <<>>
    /\ LET f == stack[1]
           c == f.todo[1]
           ctx == GetContext(c.name, c.command, c.parent)
           lines == FormatCommand(ctx, f.options.show_nested, c.commands)
       IN stack' = <<[f EXCEPT
                        !.nodes = @ \o <<[ctx |-> ctx, lines |-> lines]>>,
                        !.todo = Subcalls(ctx, f.options.show_nested,
                                          c.commands) \o Tail(@)]>>
                   \o Tail(stack)
    /\ UNCHANGED <<temp_data, raised, last, counts, cli, inp, out>>

\* the return of ClickDirective.run, through its finally clause
ClickFinish ==
    /\ ~raised
    /\ stack # <<>>
    /\ stack[1].kind = "click"
    /\ stack[1].todo = <<>>
    /\ temp_data' = PopContext(temp_data, FALSE)
    /\ stack' = Tail(stack)
    /\ counts' = [counts EXCEPT !.pops = @ + 1]
    /\ last' = Outcome("click", "done", stack[1].arguments, stack[1].options,
                       NoError, TRUE, stack[1].nodes, stack[1].command,
                       stack[1].prog_name, Tail(stack))
    /\ UNCHANGED <<raised, cli, inp, out>>

\* ClickOptionsDirective.run, up to the call of _generate_nodes
OptionsRun(arg, options, maxDepth) ==
    /\ CanInvoke(maxDepth)
    /\ counts' = [counts EXCEPT !.dirs = @ + 1]
    /\ LET r == IF arg # None THEN LoadModule(cli, arg.v)
                ELSE Loaded(NoError, FALSE,
                            Get(temp_data, "click:command", None))
           prog_name == IF options.prog # None THEN options.prog.v
                        ELSE Get(temp_data, "click:prog", "")
       IN IF r.error # NoError
          THEN /\ last' = Outcome("click-options", "error", arg, options,
                                  r.error, r.imported, <<>>, None, "", stack)
               /\ stack' = stack
          ELSE IF r.value = None
          THEN /\ last' = Outcome("click-options", "error", arg, options,
                                  Error("MissingContext",
                                        "The click-options directive can only be used within a "
                                        \o Backquote \o "click" \o Backquote
                                        \o " directive."),
                                  r.imported, <<>>, None, prog_name, stack)
               /\ stack' = stack
          ELSE /\ last' = Outcome("click-options", "begin", arg, options,
                                  NoError, r.imported, <<>>, r.value,
                                  prog_name, stack)
               /\ stack' = <<Frame("click-options", arg, options, r.value,
                                   prog_name, <<"options">>, temp_data)>>
                           \o stack
    /\ UNCHANGED <<temp_data, raised, cli, inp, out>>

\* ClickOptionsDirective._generate_nodes
OptionsStep ==
    /\ ~raised
    /\ stack # <<>>
    /\ stack[1].kind = "click-options"
    /\ stack[1].todo # <<>>
    /\ LET f == stack[1]
           ctx == GetContext(f.prog_name, f.command, None)
       IN stack' = <<[f EXCEPT
                        !.nodes = <<[ctx |-> ctx, lines |-> FormatOptions(ctx)]>>,
                        !.todo = <<>>]>> \o Tail(stack)
    /\ UNCHANGED <<temp_data, raised, last, counts, cli, inp, out>>

\* the return of ClickOptionsDirective.run
OptionsFinish ==
    /\ ~raised
    /\ stack # <<>>
    /\ stack[1].kind = "click-options"
    /\ stack[1].todo = <<>>
    /\ stack' = Tail(stack)
    /\ last' = Outcome("click-options", "done", stack[1].arguments,
                       stack[1].options, NoError, FALSE, stack[1].nodes,
                       stack[1].command, stack[1].prog_name, Tail(stack))
    /\ UNCHANGED <<temp_data, raised, counts, cli, inp, out>>

\* _generate_nodes raises (the command is not a click command, the parser
\* fails on a help text, ...)
WalkRaise ==
    /\ ~raised
    /\ stack # <<>>
    /\ stack[1].todo # <<>>
    /\ raised' = TRUE
    /\ UNCHANGED <<temp_data, stack, last, counts, cli, inp, out>>

\* the exception leaves the innermost run(): through the finally clause of a
\* click directive, straight out of a click-options directive; the build's
\* driver catches it when it leaves the outermost
Unwind ==
    /\ raised
    /\ stack # <<>>
    /\ IF stack[1].kind = "click"
       THEN /\ temp_data' = PopContext(temp_data, TRUE)
            /\ counts' = [counts EXCEPT !.pops = @ + 1]
       ELSE UNCHANGED <<temp_data, counts>>
    /\ stack' = Tail(stack)
    /\ raised' = (Len(stack) > 1)
    /\ last' = Outcome(stack[1].kind, "raised", stack[1].arguments,
                       stack[1].options, NoError, TRUE, <<>>,
                       stack[1].command, stack[1].prog_name, Tail(stack))
    /\ UNCHANGED <<cli, inp, out>>

----------------------------------------------------------------------------
(* Commands to document.                                                   *)

Command(name, help, params, commands) ==
    [name |-> name, help |-> help, short_help |-> None,
     pieces |-> IF commands = <<>> THEN <<"[OPTIONS]">>
                ELSE <<"[OPTIONS]", "COMMAND [ARGS]...">>,
     params |-> params, commands |-> commands]

Entry(key, cmd) == [key |-> key, cmd |-> cmd]

Leaf(name) == Command(name, Str("Do " \o name \o "."), <<>>, <<>>)

\* a group with the plain subcommands b and a, registered in this order
Cli == Command("cli", Str("The tool."), <<>>,
               <<Entry("b", Leaf("b")), Entry("a", Leaf("a"))>>)

\* the options of a click directive
ClickOptions(progs, nesteds, lists) ==
    [prog : progs, show_nested : nesteds, commands : lists]

InitState(exported) ==
    /\ temp_data = Dict([docname |-> "index"])
    /\ stack = <<>>
    /\ raised = FALSE
    /\ counts = [dirs |-> 0, pushes |-> 0, pops |-> 0]
    /\ last = Outcome("none", "done", None, None, NoError, FALSE, <<>>, None,
                      "", <<>>)
    /\ cli \in exported

----------------------------------------------------------------------------
(* Spec: directives of one document, nested through the help texts they    *)
(* render, some of them failing.                                           *)

Init ==
    /\ InitState({Cli})
    /\ inp = None
    /\ out = None

Next ==
    \/ \E ref \in {"m:cli", "m:solo", "m"} :
       \E o \in ClickOptions({None, Str("p1"), Str("p2")}, {TRUE}, {None}) :
           ClickRun(ref, o, MaxDepth)
    \/ WalkStep
    \/ ClickFinish
    \/ \E arg \in {None, Str("m:solo"), Str("m:nope")} :
       \E o \in ClickOptions({None, Str("p3")}, {FALSE}, {None}) :
           OptionsRun(arg, o, MaxDepth)
    \/ OptionsStep
    \/ OptionsFinish
    \/ WalkRaise
    \/ Unwind

Spec == Init /\ [][Next]_vars

----------------------------------------------------------------------------
(* The shared build state under Spec.                                      *)

\* the dicts a lookup in temp_data goes through, in lookup order
RECURSIVE Flatten(_)
Flatten(m) ==
    IF m.kind = "dict" THEN <<m.d>>
    ELSE IF m.maps = <<>> THEN <<>>
    ELSE Flatten(m.maps[1]) \o Flatten([m EXCEPT !.maps = Tail(@)])

RECURSIVE Pushed(_)
Pushed(fs) ==
    IF fs = <<>> THEN <<>>
    ELSE <<"click:command" :> fs[1].command @@ "click:prog" :> fs[1].prog_name>>
         \o Pushed(Tail(fs))

\* what temp_data must hold, given the click directives rendering in fs
Expected(fs) == Pushed(ClickFrames(fs)) \o <<[docname |-> "index"]>>

\* C1: whatever way a click directive's run() ends -- returning, failing
\* in the resolver or on the missing prog option, or by an exception of the
\* Tree Walker -- temp_data holds exactly the entries of the click
\* directives still rendering, innermost first, over the build's own dict:
\* each frame found it as it is again once the frame is gone, every push has
\* met one pop, and with none rendering the two keys are absent.
C1_PushPopPaired ==
    /\ Flatten(temp_data) = Expected(stack)
    /\ \A i \in 1..Len(stack) :
           Flatten(stack[i].saved) = Expected(SubSeq(stack, i + 1, Len(stack)))
    /\ counts.pushes - counts.pops = Len(ClickFrames(stack))
    /\ ClickFrames(stack) = <<>> =>
           /\ Get(temp_data, "click:command", None) = None
           /\ Get(temp_data, "click:prog", "") = ""

\* an exception of the Tree Walker has left a nested click directive and
\* the one around it, and the driver has caught it
C1_Witness ==
    /\ last.dir = "click"
    /\ last.phase = "raised"
    /\ counts.pops = 2
    /\ stack = <<>>
    /\ ~raised

\* the click directive a frame at position i sees around it
Enclosing(i) == ClickFrames(SubSeq(stack, i + 1, Len(stack)))

\* C2: a click-options directive given no module reference renders the
\* command of the innermost click directive rendering around it, and, given
\* no prog option either, under that directive's program name.
C2_InnermostObserved ==
    /\ \A i \in 1..Len(stack) :
           (stack[i].kind = "click-options" /\ stack[i].arguments = None) =>
               /\ Enclosing(i) # <<>>
               /\ stack[i].command = Enclosing(i)[1].command
               /\ stack[i].options.prog = None =>
                      stack[i].prog_name = Enclosing(i)[1].prog_name
    /\ (/\ last.dir = "click-options"
        /\ last.phase \in {"error", "begin"}
        /\ last.arguments = None
        /\ last.active > 0) => last.phase = "begin"

\* click-options with no argument and no prog, inside a click directive
\* that is itself nested in another one with another command and program
C2_Witness ==
    /\ Len(stack) = 3
    /\ stack[1].kind = "click-options"
    /\ stack[1].arguments = None
    /\ stack[1].options.prog = None
    /\ stack[2].kind = "click"
    /\ stack[3].kind = "click"
    /\ stack[2].command # stack[3].command
    /\ stack[2].prog_name # stack[3].prog_name

\* C3: a click-options directive given no module reference while no click
\* directive is rendering fails with MissingContext and yields no nodes,
\* also after click directives that have completed.
C3_MissingContext ==
    (/\ last.dir = "click-options"
     /\ last.phase \in {"error", "begin"}
     /\ last.arguments = None
     /\ last.active = 0) =>
        /\ last.phase = "error"
        /\ last.error.kind = "MissingContext"
        /\ last.nodes = <<>>

\* MissingContext after a click directive that has run and completed
C3_Witness ==
    /\ last.dir = "click-options"
    /\ last.error.kind = "MissingContext"
    /\ counts.pushes > 0
    /\ counts.pops = counts.pushes

----------------------------------------------------------------------------
(* SpecResolve: click directives one after another, over module references *)
(* of every shape: zero, one or two colons, empty and unknown parts.       *)

ModuleNames == {"", "m", "boom", "quit", "zz"}

AttrNames == {"", "cli", "solo", "nope"}

References ==
    ModuleNames
    \cup {a \o ":" \o b : a \in ModuleNames, b \in AttrNames}
    \cup {a \o ":" \o b \o ":" \o c :
              a \in ModuleNames, b \in AttrNames, c \in {"", "x"}}

NextResolve ==
    \/ \E ref \in References :
       \E o \in ClickOptions({None, Str("prog")}, {FALSE}, {None}) :
           ClickRun(ref, o, 1)
    \/ WalkStep
    \/ ClickFinish

SpecResolve == Init /\ [][NextResolve]_vars

Colons(ref) == {i \in 1..Len(ref) : Ch(ref, i) = ":"}

\* exactly one ':' with a non-empty part on either side
WellFormed(ref) ==
    /\ Cardinality(Colons(ref)) = 1
    /\ \A i \in Colons(ref) : 1 < i /\ i < Len(ref)

\* the reference the most recent click directive was given
LastClickRef == last.dir = "click" /\ last.phase \in {"error", "begin"}

\* C6, as claimed: every reference that is not exactly two non-empty parts
\* around one ':' fails with MalformedReference, before any import.
C6_AsClaimed ==
    (LastClickRef /\ ~WellFormed(last.arguments.v)) =>
        /\ last.error.kind = "MalformedReference"
        /\ ~last.imported

\* C6, amended: the resolver fails with MalformedReference exactly for the
\* references that hold no ':', and then before any import; every other
\* reference is split at its first ':' and goes on to the import.
C6_NoColon ==
    LastClickRef =>
        /\ last.error.kind = "MalformedReference"
               <=> Colons(last.arguments.v) = {}
        /\ last.error.kind = "MalformedReference" => ~last.imported
        /\ last.error.kind # "MalformedReference" => last.imported

\* a reference without ':' has failed before the import
C6_Witness ==
    /\ LastClickRef
    /\ last.arguments.v = "m"
    /\ last.error.kind = "MalformedReference"
    /\ ~last.imported

\* the first check of ClickDirective.run that fails, in the claimed order
FirstFailure(ref, options) ==
    IF Colons(ref) = {} THEN "MalformedReference"
    ELSE LET i == CHOOSE j \in Colons(ref) : \A k \in Colons(ref) : j <= k
             module_name == SubSeq(ref, 1, i - 1)
             attr_name == SubSeq(ref, i + 1, Len(ref))
         IN IF module_name # "m" THEN "ImportFailure"
            ELSE IF attr_name \notin {"cli", "solo"} THEN "AttributeMissing"
            ELSE IF options.prog = None THEN "MissingProgOption"
            ELSE ""

\* C9: a click directive fails with the first failing check in the order
\* no ':' / import fails / attribute missing / prog absent; a failed one
\* returns no nodes, leaves temp_data and the stack of run() frames as they
\* were and never starts the Tree Walker; one that passes all four pushes
\* and starts it.
C9_FirstFailingCheck ==
    [][(counts'.dirs # counts.dirs /\ last'.dir = "click") =>
          LET e == FirstFailure(last'.arguments.v, last'.options) IN
          /\ last'.error.kind = e
          /\ e # "" => /\ last'.phase = "error"
                       /\ last'.nodes = <<>>
                       /\ temp_data' = temp_data
                       /\ stack' = stack
          /\ e = "" => /\ last'.phase = "begin"
                       /\ temp_data' = PushContext(temp_data, last'.command,
                                                   last'.prog_name)
                       /\ Len(stack') = Len(stack) + 1
                       /\ stack'[1].todo # <<>>]_vars

\* module and attribute are found and only the prog option is missing
C9_Witness ==
    /\ LastClickRef
    /\ last.arguments.v = "m:cli"
    /\ last.error.kind = "MissingProgOption"
    /\ stack = <<>>

----------------------------------------------------------------------------
(* SpecWalk: one click directive over command trees of up to three levels, *)
(* with and without show-nested, with and without a commands list.         *)

Group(name, commands) == Command(name, Str("Group " \o name \o "."), <<>>, commands)

\* the trees exported as m:cli: two levels under a; a chain of three; no
\* subcommands; a group under b; a command registered under another key
WalkTrees ==
    {Group("cli", <<Entry("b", Leaf("b")),
                    Entry("a", Group("a", <<Entry("b", Leaf("b")),
                                            Entry("a", Leaf("a"))>>))>>),
     Group("cli", <<Entry("a", Group("a", <<Entry("a", Group("a",
                        <<Entry("b", Leaf("b"))>>))>>))>>),
     Leaf("cli"),
     Group("cli", <<Entry("a", Leaf("a")),
                    Entry("b", Group("b", <<Entry("a", Leaf("a"))>>))>>),
     Group("cli", <<Entry("b", Leaf("b")), Entry("a", Leaf("z"))>>)}

MaxWalkList == 3

RECURSIVE StringsUpTo(_, _)
StringsUpTo(chars, n) ==
    IF n = 0 THEN {""}
    ELSE LET shorter == StringsUpTo(chars, n - 1)
         IN shorter \cup {s \o c : s \in shorter, c \in chars}

\* the values of the commands option: absent, or a string
Lists(chars, n) == {None} \cup {Str(s) : s \in StringsUpTo(chars, n)}

InitWalk ==
    /\ InitState(WalkTrees)
    /\ inp = None
    /\ out = None

NextWalk ==
    \/ /\ last.dir = "none"
       /\ \E o \in ClickOptions({Str("prog")}, BOOLEAN,
                                Lists({"a", "b", ",", " "}, MaxWalkList)) :
              ClickRun("m:cli", o, 1)
    \/ WalkStep
    \/ ClickFinish

SpecWalk == InitWalk /\ [][NextWalk]_vars

\* the click directive has returned its nodes
Walked == last.dir = "click" /\ last.phase = "done"

RootCtx == GetContext(last.prog_name, last.command, None)

\* the names a commands list gives
Listed(commands) ==
    LET ps == Split(commands.v, ",") IN {Strip(ps[i]) : i \in 1..Len(ps)}

\* the commands of the blocks rendered directly under the context ctx
RenderedUnder(ctx) ==
    {last.nodes[i].ctx.command :
         i \in {j \in 1..Len(last.nodes) : last.nodes[j].ctx.parent = ctx}}

Subcommands(command, keys) ==
    {command.commands[i].cmd :
         i \in {j \in 1..Len(command.commands) : command.commands[j].key \in keys}}

AllKeys(command) ==
    {command.commands[i].key : i \in 1..Len(command.commands)}

\* C4, as claimed: with show-nested and a commands list, the subcommands
\* rendered under every rendered command, at every level, are those the
\* list names.
C4_AsClaimed ==
    (Walked /\ last.options.show_nested /\ last.options.commands # None) =>
        \A i \in 1..Len(last.nodes) :
            RenderedUnder(last.nodes[i].ctx)
                = Subcommands(last.nodes[i].ctx.command,
                              Listed(last.options.commands))

\* C4, amended: with show-nested and a commands list, the list selects the
\* subcommands rendered under the root command only; under every command
\* below the root all its subcommands are rendered, the list is not handed
\* down.
C4_ListAtRootOnly ==
    (Walked /\ last.options.show_nested /\ last.options.commands # None) =>
        \A i \in 1..Len(last.nodes) :
            LET ctx == last.nodes[i].ctx IN
            RenderedUnder(ctx)
                = Subcommands(ctx.command,
                              IF ctx.parent = None
                              THEN Listed(last.options.commands)
                              ELSE AllKeys(ctx.command))

\* the list names a only; under a both its subcommands were rendered
C4_Witness ==
    /\ Walked
    /\ last.options.show_nested
    /\ last.options.commands = Str("a")
    /\ Len(last.nodes) = 4

RECURSIVE PreOrder(_, _)
RECURSIVE PreOrderEach(_, _)
\* a command first, then all that is under each of its selected
\* subcommands, in the order of the selection
PreOrder(ctx, commands) ==
    <<ctx>> \o PreOrderEach(FilterCommands(ctx, commands), ctx)

PreOrderEach(cs, ctx) ==
    IF cs = <<>> THEN <<>>
    ELSE PreOrder(GetContext(cs[1].name, cs[1], ctx), None)
         \o PreOrderEach(Tail(cs), ctx)

Contexts(blocks) == [i \in 1..Len(blocks) |-> blocks[i].ctx]

RECURSIVE Dashes(_)
Dashes(n) == IF n = 0 THEN "" ELSE "-" \o Dashes(n - 1)

\* where the lines hold the heading title: the title over its underline
Headings(lines, title) ==
    {i \in 1..Len(lines) - 1 :
         lines[i] = title /\ lines[i + 1] = Dashes(Len(title))}

CommandNames == {"cli", "a", "b", "z"}

IsObjectLine(l) == \E n \in CommandNames : l = ".. object:: " \o n

\* where the lines hold the directive line of a Subcommand block
ObjectLines(lines) == {i \in 1..Len(lines) : IsObjectLine(lines[i])}

\* the result of a finished walk, but for how often a command is rendered
WalkResult ==
    Walked =>
        LET blocks == last.nodes
            sel == FilterCommands(RootCtx, last.options.commands)
        IN IF last.options.show_nested
           THEN /\ Contexts(blocks) = PreOrder(RootCtx, last.options.commands)
                /\ \A i \in 1..Len(blocks) :
                       /\ blocks[i].lines[1]
                              = ".. program:: " \o CommandPath(blocks[i].ctx)
                       /\ Headings(blocks[i].lines, "Commands") = {}
                       /\ ObjectLines(blocks[i].lines) = {}
           ELSE /\ Contexts(blocks) = <<RootCtx>>
                /\ Cardinality(Headings(blocks[1].lines, "Commands"))
                       = IF sel = <<>> THEN 0 ELSE 1
                /\ SelectSeq(blocks[1].lines, IsObjectLine)
                       = [i \in 1..Len(sel) |-> ".. object:: " \o sel[i].name]
                /\ \A h \in Headings(blocks[1].lines, "Commands") :
                       \A o \in ObjectLines(blocks[1].lines) : h < o

\* C10, as claimed (its safety part): the finished walk is in pre-order,
\* without Commands heading or Subcommand blocks when nested, the root alone
\* with its Subcommand blocks under one Commands heading when not, and no
\* command is rendered twice.
C10_AsClaimed ==
    /\ WalkResult
    /\ Walked =>
           \A i, j \in 1..Len(last.nodes) :
               i # j => last.nodes[i].ctx # last.nodes[j].ctx

RECURSIVE Pending(_)
\* the commands the calls in todo will still render
Pending(todo) ==
    IF todo = <<>> THEN 0
    ELSE LET c == todo[1]
         IN Len(PreOrder(GetContext(c.name, c.command, c.parent), c.commands))
            + Pending(Tail(todo))

\* the steps a running click directive still has to take: one per command
\* to render, and its return
StepsLeft(s) ==
    IF s = <<>> THEN 0
    ELSE 1 + (IF s[1].options.show_nested THEN Pending(s[1].todo)
              ELSE Len(s[1].todo))

\* a running walk can take its next step, and every step it takes leaves
\* fewer
WalkAdvances ==
    /\ stack # <<>> => ~raised /\ stack[1].kind = "click"
    /\ stack # <<>> => StepsLeft(stack') < StepsLeft(stack)

\* C10, amended: the walk of a finite command tree terminates (every step
\* of a running walk leaves fewer steps to take); with show-nested its
\* nodes are in pre-order, a command's own block first and then all that is
\* under each selected subcommand in selection order, a command being
\* rendered once for every time the selection holds it (twice when the
\* commands list names it twice), and no block holds a Commands heading or
\* a Subcommand block; without show-nested the root alone is rendered, its
\* selected subcommands as Subcommand blocks under one Commands heading.
C10_PreOrder == []WalkResult /\ [][WalkAdvances]_vars

\* the whole of the two-level tree, nested: cli, a, a a, a b, b
C10_Witness ==
    /\ Walked
    /\ last.options.show_nested
    /\ last.options.commands = None
    /\ Len(last.nodes) = 5

----------------------------------------------------------------------------
(* SpecFilter: _filter_commands on its own, over every commands string up  *)
(* to MaxListLen characters and a few subcommand dicts.                    *)

MaxListLen == 5

\* b, a and c registered in this order; a command named z under the key a
\* beside one named b; a longer key beside its prefix; no subcommands
FilterGroups ==
    {Group("cli", <<Entry("b", Leaf("b")), Entry("a", Leaf("a")),
                    Entry("c", Leaf("c"))>>),
     Group("cli", <<Entry("a", Leaf("z")), Entry("c", Leaf("b"))>>),
     Group("cli", <<Entry("ca", Leaf("ca")), Entry("c", Leaf("c")),
                    Entry("a", Leaf("a"))>>),
     Leaf("cli")}

InitFilter ==
    /\ InitState({Cli})
    /\ inp \in [command : FilterGroups,
                commands : Lists({"a", "c", "x", ",", " "}, MaxListLen)]
    /\ out = None

ApplyFilter ==
    /\ out = None
    /\ out' = [result |-> FilterCommands(GetContext("prog", inp.command, None),
                                         inp.commands)]
    /\ UNCHANGED <<temp_data, stack, raised, last, counts, cli, inp>>

NextFilter == ApplyFilter

SpecFilter == InitFilter /\ [][NextFilter]_vars

\* the subcommand registered under key
Under(command, key) ==
    CHOOSE c \in Subcommands(command, {key}) : TRUE

Names(cs) == [i \in 1..Len(cs) |-> cs[i].name]

\* C5: with a commands string, the result holds, in the order the names are
\* given, the subcommand under every whitespace-stripped name that is a key
\* of the subcommand dict, and nothing for the others ("c,x,a" over a, b, c
\* gives c then a); with none it holds every subcommand, ordered by name.
C5_Selection ==
    out # None =>
        LET r == out.result
            dict == inp.command.commands
        IN IF inp.commands # None
           THEN LET ps == Split(inp.commands.v, ",")
                    hits == {i \in 1..Len(ps) :
                                 Strip(ps[i]) \in AllKeys(inp.command)}
                    rank(i) == Cardinality({k \in hits : k <= i})
                IN /\ Len(r) = Cardinality(hits)
                   /\ \A i \in hits :
                          r[rank(i)] = Under(inp.command, Strip(ps[i]))
                   /\ (inp.commands.v = "c,x,a"
                       /\ AllKeys(inp.command) = {"a", "b", "c"})
                          => Names(r) = <<"c", "a">>
           ELSE /\ Len(r) = Len(dict)
                /\ \A e \in 1..Len(dict) :
                       Cardinality({i \in 1..Len(r) : r[i] = dict[e].cmd})
                           = Cardinality({i \in 1..Len(dict) :
                                              dict[i].cmd = dict[e].cmd})
                /\ \A i, j \in 1..Len(r) :
                       i < j => ~StrLess(r[j].name, r[i].name)

\* "c,x,a" over the subcommands a, b and c has been filtered
C5_Witness ==
    /\ out # None
    /\ inp.commands = Str("c,x,a")
    /\ AllKeys(inp.command) = {"a", "b", "c"}
    /\ Len(out.result) = 2

----------------------------------------------------------------------------
(* SpecHelp: _get_help_record on its own, over options with and without    *)
(* default, show_default, required, help and rich_help.                    *)

IntVal(n) == [t |-> "int", v |-> n]

Defaults ==
    {None, IntVal(1), IntVal(0), Str("x"), [t |-> "bool", v |-> FALSE],
     [t |-> "list", v |-> <<IntVal(1), IntVal(2)>>],
     [t |-> "list", v |-> <<IntVal(7)>>],
     [t |-> "list", v |-> <<>>],
     [t |-> "tuple", v |-> <<Str("a"), Str("b"), Str("c")>>]}

Option(opts, is_flag, help, rich_help, default, show_default, required, hidden, envvar) ==
    [kind |-> "option", opts |-> opts, secondary_opts |-> <<>>,
     is_flag |-> is_flag, count |-> FALSE, metavar |-> "<text>",
     help |-> help, rich_help |-> rich_help, default |-> default,
     show_default |-> show_default, required |-> required,
     hidden |-> hidden, envvar |-> envvar]

InitHelp ==
    /\ InitState({Cli})
    /\ \E is_flag, show_default, required \in BOOLEAN :
       \E help \in {None, Str(""), Str("Help.")} :
       \E rich_help \in {None, Str("Rich.")} :
       \E default \in Defaults :
           inp = Option(<<"--foo", "-f">>, is_flag, help, rich_help, default,
                        show_default, required, FALSE, None)
    /\ out = None

ApplyHelp ==
    /\ out = None
    /\ out' = [record |-> GetHelpRecord(inp)]
    /\ UNCHANGED <<temp_data, stack, raised, last, counts, cli, inp>>

SpecHelp == InitHelp /\ [][ApplyHelp]_vars

\* the help text the annotation is appended to
BaseHelp(opt) ==
    IF opt.rich_help # None THEN opt.rich_help.v
    ELSE IF opt.help # None THEN opt.help.v
    ELSE ""

\* the default as the annotation shows it
Shown(default) ==
    IF default.t \in {"list", "tuple"}
    THEN Join(", ", [i \in 1..Len(default.v) |-> Format(default.v[i])])
    ELSE Format(default)

\* C8: the help text ends with one bracketed annotation of at most two
\* items, 'default: <value>' (a list or tuple joined with ', ') iff a
\* default is set and shown, then 'required' iff the option is required,
\* joined with '; '; with neither nothing is appended.  [1, 2] shown and not
\* required gives '[default: 1, 2]', required alone '[required]'.
C8_Annotation ==
    out # None =>
        LET shown == inp.default # None /\ inp.show_default
            annotation ==
                CASE shown /\ inp.required ->
                         "[default: " \o Shown(inp.default) \o "; required]"
                  [] shown /\ ~inp.required ->
                         "[default: " \o Shown(inp.default) \o "]"
                  [] ~shown /\ inp.required -> "[required]"
                  [] OTHER -> ""
            base == BaseHelp(inp)
        IN /\ out.record[2] = IF annotation = "" THEN base
                              ELSE IF base = "" THEN annotation
                              ELSE base \o "  " \o annotation
           /\ (base = "" /\ shown /\ ~inp.required
               /\ inp.default.t = "list"
               /\ inp.default.v = <<IntVal(1), IntVal(2)>>)
                  => out.record[2] = "[default: 1, 2]"
           /\ (base = "" /\ inp.default = None /\ inp.required)
                  => out.record[2] = "[required]"
           /\ (base = "" /\ shown /\ inp.required
               /\ inp.default.t = "str" /\ inp.default.v = "x")
                  => out.record[2] = "[default: x; required]"

\* the default [1, 2], shown, on an option that is not required
C8_Witness ==
    /\ out # None
    /\ inp.default # None
    /\ inp.default.t = "list"
    /\ inp.default.v = <<IntVal(1), IntVal(2)>>
    /\ inp.show_default
    /\ ~inp.required
    /\ out.record[2] = "[default: 1, 2]"

----------------------------------------------------------------------------
(* SpecFormat: _format_command on its own, over commands with every        *)
(* selection of shown and hidden options and arguments, with and without   *)
(* environment variables.                                                  *)

Argument(name, envvar) ==
    [kind |-> "argument", name |-> name, required |-> TRUE, nargs |-> 1,
     envvar |-> envvar]

PlainOption(opt, hidden, envvar) ==
    Option(<<opt>>, TRUE, Str("Set it."), None, None, FALSE, FALSE, hidden,
           envvar)

ParamPool ==
    <<PlainOption("--shown", FALSE, None),
      PlainOption("--env", FALSE, Str("ENV")),
      PlainOption("--hidden", TRUE, None),
      PlainOption("--secret", TRUE, Str("SECRET")),
      PlainOption("--blank", FALSE, Str("")),
      Argument("SRC", None),
      Argument("DST", Str("DST"))>>

\* the params of pool at the positions in picked, in their order
RECURSIVE Pick(_, _, _)
Pick(pool, picked, i) ==
    IF i > Len(pool) THEN <<>>
    ELSE (IF i \in picked THEN <<pool[i]>> ELSE <<>>)
         \o Pick(pool, picked, i + 1)

InitFormat ==
    /\ InitState({Cli})
    /\ \E picked \in SUBSET (1..Len(ParamPool)) :
       \E commands \in {<<>>, <<Entry("a", Leaf("a"))>>} :
       \E show_nested \in BOOLEAN :
           inp = [command |-> Command("cli", Str("The tool."),
                                      Pick(ParamPool, picked, 1), commands),
                  show_nested |-> show_nested]
    /\ out = None

ApplyFormat ==
    /\ out = None
    /\ out' = [lines |-> FormatCommand(GetContext("prog", inp.command, None),
                                       inp.show_nested, None)]
    /\ UNCHANGED <<temp_data, stack, raised, last, counts, cli, inp>>

SpecFormat == InitFormat /\ [][ApplyFormat]_vars

Params == {inp.command.params[i] : i \in 1..Len(inp.command.params)}

\* C7: the rendered command holds the Options heading iff it has an option
\* that is not hidden, the Arguments heading iff it has an argument, the
\* Environment variables heading iff one of its params names an environment
\* variable, and none of them twice.
C7_Headings ==
    out # None =>
        /\ Headings(out.lines, "Options") # {}
               <=> \E p \in Params : p.kind = "option" /\ ~p.hidden
        /\ Headings(out.lines, "Arguments") # {}
               <=> \E p \in Params : p.kind = "argument"
        /\ Headings(out.lines, "Environment variables") # {}
               <=> \E p \in Params : p.envvar # None /\ p.envvar.v # ""
        /\ \A t \in {"Options", "Arguments", "Environment variables"} :
               Cardinality(Headings(out.lines, t)) <= 1

\* a command whose only options are hidden, with an argument: no Options
\* heading, an Arguments heading
C7_Witness ==
    /\ out # None
    /\ \E p \in Params : p.kind = "option"
    /\ \A p \in Params : p.kind = "option" => p.hidden
    /\ Headings(out.lines, "Options") = {}
    /\ Headings(out.lines, "Arguments") # {}

====
